---- MODULE Spec2Model ----
(***************************************************************************)
(* Model of package_console_terminal.py: a directory tree is walked, the   *)
(* files that pass the extension / exclusion / hidden filter are sorted,   *)
(* read and concatenated into one document, which is written to a file and *)
(* then copied to the clipboard.                                           *)
(*                                                                         *)
(* A file or directory name is a sequence of one-character strings, a path *)
(* is a sequence of names, file content is a sequence of byte values and   *)
(* decoded text is a sequence of code points.                              *)
(***************************************************************************)
EXTENDS Integers, Sequences, FiniteSets, TLC

(* Largest number of files in the scanned tree. *)
MaxFiles == 3

----------------------------------------------------------------------------
(* Characters and strings *)

UpperChars == <<"A","B","C","D","E","F","G","H","I","J","K","L","M",
                "N","O","P","Q","R","S","T","U","V","W","X","Y","Z">>

LowerChars == <<"a","b","c","d","e","f","g","h","i","j","k","l","m",
                "n","o","p","q","r","s","t","u","v","w","x","y","z">>

IsUpper(c) == \E i \in 1..Len(UpperChars) : UpperChars[i] = c

IndexIn(c, s) == CHOOSE i \in 1..Len(s) : s[i] = c

(* Code point of a character: Python compares str values by code point. *)
Ord(c) ==
    IF c = "-" THEN 45
    ELSE IF c = "." THEN 46
    ELSE IF c = "/" THEN 47
    ELSE IF IsUpper(c) THEN 64 + IndexIn(c, UpperChars)
    ELSE 96 + IndexIn(c, LowerChars)

(* str.lower() *)
lower(s) ==
    [i \in 1..Len(s) |->
        IF IsUpper(s[i]) THEN LowerChars[IndexIn(s[i], UpperChars)] ELSE s[i]]

(* str.startswith(".") *)
startswith_dot(s) == Len(s) > 0 /\ s[1] = "."

(* str < str : lexicographic by code point, a proper prefix first. *)
StrLess(a, b) ==
    \E k \in 1..Len(b) :
        /\ k <= Len(a) + 1
        /\ \A i \in 1..(k - 1) : a[i] = b[i]
        /\ (k = Len(a) + 1 \/ Ord(a[k]) < Ord(b[k]))

(* PurePath.suffix: from the last dot of the name, unless that dot is the  *)
(* first or the last character.                                            *)
suffix(name) ==
    LET dots == {i \in 1..Len(name) : name[i] = "."}
    IN  IF dots = {} THEN <<>>
        ELSE LET i == CHOOSE d \in dots : \A e \in dots : e <= d
             IN  IF 1 < i /\ i < Len(name)
                 THEN SubSeq(name, i, Len(name))
                 ELSE <<>>

----------------------------------------------------------------------------
(* Paths *)

(* The resolved root: an absolute path of one component. *)
root == << <<"r">> >>

(* Path(current_root) / filename *)
JoinPath(dir, name) == Append(dir, name)

(* str(path) of an absolute path: every component preceded by "/". *)
RECURSIVE PathStr(_)
PathStr(p) ==
    IF p = <<>> THEN <<>> ELSE <<"/">> \o p[1] \o PathStr(Tail(p))

(* PurePath.__lt__: the component lists are compared, not the strings. *)
PathLess(p, q) ==
    \E k \in 1..Len(q) :
        /\ k <= Len(p) + 1
        /\ \A i \in 1..(k - 1) : p[i] = q[i]
        /\ (k = Len(p) + 1 \/ StrLess(p[k], q[k]))

(* sorted() left out: the paths stay in the order the walk yielded them. *)
SortPaths_Unsorted(s) == s

RECURSIVE InsertPath(_, _)
InsertPath(p, s) ==
    IF s = <<>> THEN <<p>>
    ELSE IF PathLess(p, s[1]) THEN <<p>> \o s
    ELSE <<s[1]>> \o InsertPath(p, Tail(s))

(* sorted(paths): ascending by PurePath.__lt__; the paths are distinct.    *)
RECURSIVE SortPaths(_)
SortPaths(s) ==
    IF s = <<>> THEN <<>> ELSE InsertPath(s[1], SortPaths(Tail(s)))

(* path.relative_to(root) *)
relative_to(path, base) == SubSeq(path, Len(base) + 1, Len(path))

----------------------------------------------------------------------------
(* Text decoding and encoding *)

(* UTF-8 restricted to the one- and two-byte forms; the contents below     *)
(* draw no lead byte of a longer form.                                     *)
RECURSIVE Utf8Valid(_)
Utf8Valid(b) ==
    IF b = <<>> THEN TRUE
    ELSE IF b[1] < 128 THEN Utf8Valid(Tail(b))
    ELSE IF /\ 194 <= b[1] /\ b[1] <= 223
            /\ Len(b) >= 2 /\ 128 <= b[2] /\ b[2] <= 191
         THEN Utf8Valid(SubSeq(b, 3, Len(b)))
    ELSE FALSE

RECURSIVE Utf8Decode(_)
Utf8Decode(b) ==
    IF b = <<>> THEN <<>>
    ELSE IF b[1] < 128 THEN <<b[1]>> \o Utf8Decode(Tail(b))
    ELSE <<(b[1] - 192) * 64 + (b[2] - 128)>> \o Utf8Decode(SubSeq(b, 3, Len(b)))

RECURSIVE Utf8Encode(_)
Utf8Encode(t) ==
    IF t = <<>> THEN <<>>
    ELSE IF t[1] < 128 THEN <<t[1]>> \o Utf8Encode(Tail(t))
    ELSE <<192 + (t[1] \div 64), 128 + (t[1] % 64)>> \o Utf8Encode(Tail(t))

(* Latin-1: every byte is the code point of the same value. *)
Latin1Decode(b) == b

(* Text-mode reading with newline=None: "\r\n" and "\r" become "\n". *)
RECURSIVE UniversalNewlines(_)
UniversalNewlines(t) ==
    IF t = <<>> THEN <<>>
    ELSE IF t[1] = 13 /\ Len(t) >= 2 /\ t[2] = 10
         THEN <<10>> \o UniversalNewlines(SubSeq(t, 3, Len(t)))
    ELSE IF t[1] = 13 THEN <<10>> \o UniversalNewlines(Tail(t))
    ELSE <<t[1]>> \o UniversalNewlines(Tail(t))

(* Path.read_text(encoding=...) of a file in the given state. *)
read_text(file, encoding) ==
    IF ~file.readable THEN [exc |-> "OSError", text |-> <<>>]
    ELSE IF encoding = "utf-8"
         THEN IF Utf8Valid(file.bytes)
              THEN [exc |-> "none", text |-> UniversalNewlines(Utf8Decode(file.bytes))]
              ELSE [exc |-> "UnicodeDecodeError", text |-> <<>>]
    ELSE [exc |-> "none", text |-> UniversalNewlines(Latin1Decode(file.bytes))]

(* The except clause left out: a decoding error propagates. *)
ReadFile_NoFallback(file) == read_text(file, "utf-8")

(* An unreadable file read as empty text instead of raising. *)
ReadFile_SkipUnreadable(file) ==
    IF ~file.readable THEN [exc |-> "none", text |-> <<>>]
    ELSE IF Utf8Valid(file.bytes) THEN read_text(file, "utf-8")
    ELSE read_text(file, "latin-1")

(* _read_file: UTF-8 first, Latin-1 when that raises UnicodeDecodeError.   *)
ReadFile(file) ==
    LET first == read_text(file, "utf-8")
    IN  IF first.exc = "UnicodeDecodeError"
        THEN read_text(file, "latin-1")
        ELSE first

----------------------------------------------------------------------------
(* Inputs *)

N_a == <<"a">>
N_b == <<"b">>
N_nm == <<"n","m">>
N_git == <<".","g","i","t">>
N_a_py == <<"a",".","p","y">>
N_z_py == <<"z",".","p","y">>
N_m_PY == <<"m",".","P","Y">>
N_b_py == <<"b",".","p","y">>
N_c_py == <<"c",".","p","y">>
N_d_py == <<"d",".","p","y">>
N_h_py == <<"h",".","p","y">>
N_hidden_py == <<".","e",".","p","y">>
N_r_md == <<"r",".","m","d">>

(* Files a tree may hold, as paths relative to the root. *)
CandidateFiles ==
    { <<N_a_py>>, <<N_z_py>>, <<N_m_PY>>, <<N_r_md>>, <<N_hidden_py>>,
      <<N_a, N_b_py>>, <<N_nm, N_d_py>>, <<N_a, N_nm, N_b, N_c_py>>,
      <<N_git, N_h_py>> }

Trees == {t \in SUBSET CandidateFiles : Cardinality(t) <= MaxFiles}

(* args.include.split(","): "py", ".py,,md" and ".PY". *)
IncludeArgs ==
    { << <<"p","y">> >>,
      << <<".","p","y">>, <<>>, <<"m","d">> >>,
      << <<".","P","Y">> >> }

(* args.exclude.split(","): "nm" and "". *)
ExcludeArgs == { <<N_nm>>, << <<>> >> }

(* --output: absent or an explicit path. *)
OutputArgs == {"", "out.txt"}

(* What a read of a file meets: "x\r\n", "e-acute" in UTF-8, a byte that   *)
(* is invalid UTF-8 followed by "\r", or a file that cannot be read.       *)
FileStates ==
    { [readable |-> TRUE,  bytes |-> <<120, 13, 10>>],
      [readable |-> TRUE,  bytes |-> <<195, 169>>],
      [readable |-> TRUE,  bytes |-> <<255, 13>>],
      [readable |-> FALSE, bytes |-> <<>>] }

OUTPUTS_DIR == "/Users/rustamhudaygulyyev/Library/Mobile Documents/com~apple~CloudDocs/Downloads"

----------------------------------------------------------------------------
(* The combined document: a list of segments that "".join concatenates.    *)

Header == [kind |-> "header", rel |-> <<>>, body |-> <<>>]

Marker(rel) == [kind |-> "marker", rel |-> rel, body |-> <<>>]

Body(text) == [kind |-> "text", rel |-> <<>>, body |-> text]

(* Path.write_text(combined, encoding="utf-8"): the bytes on disk. *)
EncodeDoc(doc) ==
    [i \in 1..Len(doc) |-> [doc[i] EXCEPT !.body = Utf8Encode(@)]]

NoFile == [written |-> FALSE, data |-> <<>>]

NoError == [exc |-> "none", at |-> "none"]

----------------------------------------------------------------------------
(* Filter of _iter_files *)

(* Only the hidden test is made: the exclusion set is ignored. *)
KeepDir_NoExclusion(d, excl) == ~startswith_dot(d)

(* dirs[:] = [d for d in dirs if d not in exclude_dirs and not d.startswith(".")] *)
KeepDir(d, excl) == d \notin excl /\ ~startswith_dot(d)

(* The hidden-file test left out. *)
YieldFile_NoHiddenTest(name, incl) == lower(suffix(name)) \in incl

(* A file is yielded unless its name starts with "." or its lower-cased    *)
(* suffix is not in the include set.                                       *)
YieldFile(name, incl) ==
    ~startswith_dot(name) /\ lower(suffix(name)) \in incl

(* ext if ext.startswith(".") else f".{ext}" *)
NormExt(ext) == IF startswith_dot(ext) THEN ext ELSE <<".">> \o ext

(* {... for ext in args.include.split(",") if ext} *)
ParseInclude(tokens) ==
    {NormExt(tokens[i]) : i \in {j \in 1..Len(tokens) : tokens[j] # <<>>}}

(* {d for d in args.exclude.split(",") if d} *)
ParseExclude(tokens) ==
    {tokens[i] : i \in {j \in 1..Len(tokens) : tokens[j] # <<>>}}

IsPrefix(d, p) == Len(d) <= Len(p) /\ SubSeq(p, 1, Len(d)) = d

(* os.scandir(dir): the names of the sub-directories and of the files. *)
DirsIn(t, dir) ==
    {p[Len(dir) + 1] : p \in {q \in t : IsPrefix(dir, q) /\ Len(q) > Len(dir) + 1}}

FilesIn(t, dir) ==
    {p[Len(dir) + 1] : p \in {q \in t : IsPrefix(dir, q) /\ Len(q) = Len(dir) + 1}}

(* The orders in which a directory listing may come. *)
Orders(S) ==
    {f \in [1..Cardinality(S) -> S] :
        \A i, j \in 1..Cardinality(S) : i # j => f[i] # f[j]}

RECURSIVE SelectYielded(_, _, _)
SelectYielded(dir, names, incl) ==
    IF names = <<>> THEN <<>>
    ELSE IF YieldFile(names[1], incl)
         THEN <<JoinPath(dir, names[1])>> \o SelectYielded(dir, Tail(names), incl)
    ELSE SelectYielded(dir, Tail(names), incl)

----------------------------------------------------------------------------
(* Clipboard and write steps *)

(* The return after a successful pbcopy left out. *)
AfterPrimary_NoReturn(ok) == "pyperclip"

(* _copy_to_clipboard: return after pbcopy, else go on to pyperclip. *)
AfterPrimary(ok) == IF ok THEN "report" ELSE "pyperclip"

(* A failed write swallowed: the run goes on to the clipboard. *)
AfterWrite_Swallowed(outcome) == "pbcopy"

(* main: write_text raising ends the run, else the clipboard step follows. *)
AfterWrite(outcome) == IF outcome = "ok" THEN "pbcopy" ELSE "failed"

(* The destination path of main. *)
OutputPath(arg) ==
    IF arg # "" THEN [dir |-> "", name |-> arg]
    ELSE [dir |-> OUTPUTS_DIR, name |-> "combined_code_<timestamp>.txt"]

NoPath == [dir |-> "", name |-> ""]

----------------------------------------------------------------------------
(* State *)

VARIABLES
    rootKind,      \* "dir", "file" or "missing": what args.root names
    tree,          \* the files under the root, relative paths
    includeArg,    \* tokens of --include
    excludeArg,    \* tokens of --exclude
    include_exts,  \* main: include_exts
    exclude_dirs,  \* main: exclude_dirs
    stack,         \* os.walk: directories still to visit, first one next
    found,         \* paths yielded by _iter_files, in yield order
    queue,         \* collect_code: sorted paths still to read
    reads,         \* the reads made by _read_file: path and file state
    combined,      \* collect_code: combined
    output_path,   \* main: output_path
    disk,          \* the destination file
    clipLog,       \* clipboard mechanisms tried, with their outcome
    stdout,        \* lines printed
    error,         \* the exception that ended the run
    pc             \* position in main

vars == <<rootKind, tree, includeArg, excludeArg, include_exts, exclude_dirs,
          stack, found, queue, reads, combined, output_path, disk, clipLog,
          stdout, error, pc>>

inputs == <<rootKind, tree, includeArg, excludeArg>>

Init ==
    /\ rootKind \in {"dir", "file", "missing"}
    /\ tree \in (IF rootKind = "dir" THEN Trees ELSE {{}})
    /\ includeArg \in IncludeArgs
    /\ excludeArg \in ExcludeArgs
    /\ include_exts = {}
    /\ exclude_dirs = {}
    /\ stack = <<>>
    /\ found = <<>>
    /\ queue = <<>>
    /\ reads = <<>>
    /\ combined = <<>>
    /\ output_path = NoPath
    /\ disk = NoFile
    /\ clipLog = <<>>
    /\ stdout = <<>>
    /\ error = NoError
    /\ pc = "parse"

(* main, lines 121-123, and the call of collect_code / os.walk(root). *)
ParseArgs ==
    /\ pc = "parse"
    /\ include_exts' = ParseInclude(includeArg)
    /\ exclude_dirs' = ParseExclude(excludeArg)
    /\ stack' = << <<>> >>
    /\ pc' = "walk"
    /\ UNCHANGED <<inputs, found, queue, reads, combined, output_path, disk,
                   clipLog, stdout, error>>

(* One iteration of the os.walk loop of _iter_files: list a directory,     *)
(* prune its sub-directories, yield its matching files, descend.  A        *)
(* directory that cannot be listed (the root is missing or is a file) is   *)
(* passed over without an error, os.walk being called without onerror.     *)
WalkDir ==
    /\ pc = "walk"
    /\ stack # <<>>
    /\ LET dir == Head(stack)
       IN  IF rootKind # "dir"
           THEN /\ stack' = Tail(stack)
                /\ found' = found
           ELSE \E ds \in Orders({d \in DirsIn(tree, dir) : KeepDir(d, exclude_dirs)}),
                   fs \in Orders(FilesIn(tree, dir)) :
                    /\ found' = found \o SelectYielded(root \o dir, fs, include_exts)
                    /\ stack' = [i \in 1..Len(ds) |-> Append(dir, ds[i])] \o Tail(stack)
    /\ UNCHANGED <<inputs, include_exts, exclude_dirs, queue, reads, combined,
                   output_path, disk, clipLog, stdout, error, pc>>

(* collect_code: the header, and sorted() over the exhausted generator. *)
SortFound ==
    /\ pc = "walk"
    /\ stack = <<>>
    /\ queue' = SortPaths(found)
    /\ combined' = <<Header>>
    /\ pc' = "collect"
    /\ UNCHANGED <<inputs, include_exts, exclude_dirs, stack, found, reads,
                   output_path, disk, clipLog, stdout, error>>

(* collect_code: one iteration of the loop over the sorted paths. *)
ReadNext ==
    /\ pc = "collect"
    /\ queue # <<>>
    /\ \E file \in FileStates :
        LET path == Head(queue)
            r == ReadFile(file)
        IN  /\ reads' = Append(reads, [path |-> path, file |-> file])
            /\ IF r.exc = "none"
               THEN /\ combined' = combined \o
                            <<Marker(relative_to(path, root)), Body(r.text)>>
                    /\ queue' = Tail(queue)
                    /\ UNCHANGED <<error, pc>>
               ELSE /\ error' = [exc |-> r.exc, at |-> "collect"]
                    /\ pc' = "failed"
                    /\ UNCHANGED <<combined, queue>>
    /\ UNCHANGED <<inputs, include_exts, exclude_dirs, stack, found,
                   output_path, disk, clipLog, stdout>>

(* main, lines 127-132: choose the destination and write the document.     *)
(* The write may fail on opening the file or after truncating it.          *)
WriteOutput ==
    /\ pc = "collect"
    /\ queue = <<>>
    /\ \E arg \in OutputArgs, outcome \in {"ok", "open_failed", "write_failed"} :
        /\ output_path' = OutputPath(arg)
        /\ disk' = IF outcome = "ok"
                   THEN [written |-> TRUE, data |-> EncodeDoc(combined)]
                   ELSE IF outcome = "write_failed"
                        THEN [written |-> FALSE, data |-> <<>>]
                   ELSE disk
        /\ error' = IF outcome = "ok" THEN error
                    ELSE [exc |-> "OSError", at |-> "write"]
        /\ pc' = AfterWrite(outcome)
    /\ UNCHANGED <<inputs, include_exts, exclude_dirs, stack, found, queue,
                   reads, combined, clipLog, stdout>>

(* _copy_to_clipboard, lines 73-77: pbcopy. *)
CopyPrimary ==
    /\ pc = "pbcopy"
    /\ \E ok \in BOOLEAN :
        /\ clipLog' = Append(clipLog, [mech |-> "pbcopy", ok |-> ok])
        /\ pc' = AfterPrimary(ok)
    /\ UNCHANGED <<inputs, include_exts, exclude_dirs, stack, found, queue,
                   reads, combined, output_path, disk, stdout, error>>

(* _copy_to_clipboard, lines 78-83: pyperclip, RuntimeError when it fails. *)
CopyFallback ==
    /\ pc = "pyperclip"
    /\ \E ok \in BOOLEAN :
        /\ clipLog' = Append(clipLog, [mech |-> "pyperclip", ok |-> ok])
        /\ IF ok
           THEN pc' = "report" /\ error' = error
           ELSE pc' = "failed" /\ error' = [exc |-> "RuntimeError", at |-> "clipboard"]
    /\ UNCHANGED <<inputs, include_exts, exclude_dirs, stack, found, queue,
                   reads, combined, output_path, disk, stdout>>

(* main, lines 136-138: the two lines printed on success. *)
Report ==
    /\ pc = "report"
    /\ stdout' = stdout \o <<[line |-> "Saved", path |-> output_path],
                             [line |-> "Copied to clipboard", path |-> NoPath]>>
    /\ pc' = "done"
    /\ UNCHANGED <<inputs, include_exts, exclude_dirs, stack, found, queue,
                   reads, combined, output_path, disk, clipLog, error>>

Next ==
    \/ ParseArgs
    \/ WalkDir
    \/ SortFound
    \/ ReadNext
    \/ WriteOutput
    \/ CopyPrimary
    \/ CopyFallback
    \/ Report

Spec == Init /\ [][Next]_vars

----------------------------------------------------------------------------
(* Shared vocabulary of the properties *)

(* The document is complete: the loop of collect_code has ended. *)
DocComplete ==
    \/ pc = "collect" /\ queue = <<>>
    \/ pc \in {"pbcopy", "pyperclip", "report", "done"}
    \/ pc = "failed" /\ error.at \in {"write", "clipboard"}

WalkDone == pc \notin {"parse", "walk"}

(* No directory between the root and the file is excluded or hidden. *)
DirsAllowed(rel) ==
    \A k \in 1..(Len(rel) - 1) :
        rel[k] \notin exclude_dirs /\ ~startswith_dot(rel[k])

FileName(rel) == rel[Len(rel)]

(* The filter stated on a whole relative path. *)
PassesFilter(rel) ==
    /\ DirsAllowed(rel)
    /\ ~startswith_dot(FileName(rel))
    /\ lower(suffix(FileName(rel))) \in include_exts

Passing == {rel \in tree : PassesFilter(rel)}

WasFound(rel) == \E i \in 1..Len(found) : found[i] = root \o rel

MarkerIdx == {i \in 1..Len(combined) : combined[i].kind = "marker"}

(* The state in which the file of a marker was read. *)
ReadOf(rel) ==
    reads[CHOOSE i \in 1..Len(reads) : reads[i].path = root \o rel].file

(* Header, then marker and text in turn, one pair per passing file. *)
EntriesExact ==
    /\ Len(combined) = 1 + 2 * Cardinality(Passing)
    /\ combined[1] = Header
    /\ \A i \in 2..Len(combined) :
        IF i % 2 = 0
        THEN combined[i].kind = "marker" /\ combined[i].rel \in Passing
        ELSE combined[i].kind = "text"
    /\ \A rel \in Passing : \E i \in MarkerIdx : combined[i] = Marker(rel)

----------------------------------------------------------------------------
(* C1: a root that is missing or not a directory makes the run fail before *)
(* any output: no destination file, no clipboard attempt, no success.      *)
C1_BadRootFails ==
    rootKind # "dir" =>
        /\ disk = NoFile
        /\ clipLog = <<>>
        /\ pc # "done"

(* C2 as stated: the entries are in the order of the paths' string form.   *)
C2_StringOrder ==
    \A i, j \in MarkerIdx :
        i < j => StrLess(PathStr(root \o combined[i].rel),
                         PathStr(root \o combined[j].rel))

(* C2 amended: the entries are in ascending order of the paths compared    *)
(* component by component, whatever order the walk yielded them in.        *)
C2_ComponentOrder ==
    /\ \A i, j \in MarkerIdx :
        i < j => PathLess(root \o combined[i].rel, root \o combined[j].rel)
    /\ \A i, j \in 1..Len(queue) : i < j => PathLess(queue[i], queue[j])
    /\ DocComplete =>
        \A k \in 1..Len(found) :
            \E i \in MarkerIdx : root \o combined[i].rel = found[k]

(* z.py was yielded before a.py and a/b.py, and all three were emitted. *)
C2_Witness ==
    /\ pc = "done"
    /\ tree = {<<N_z_py>>, <<N_a_py>>, <<N_a, N_b_py>>}
    /\ Len(found) = 3
    /\ found[1] = root \o <<N_z_py>>
    /\ Cardinality(MarkerIdx) = 3

(* C3: no yielded path, and no directory the walk goes into, has a         *)
(* directory component below the root that is excluded or hidden.          *)
C3_PrunedSubtrees ==
    /\ \A i \in 1..Len(found) : DirsAllowed(relative_to(found[i], root))
    /\ \A i \in 1..Len(stack) :
        \A k \in 1..Len(stack[i]) :
            stack[i][k] \notin exclude_dirs /\ ~startswith_dot(stack[i][k])

(* The walk ended over a tree with a/nm/b/c.py and .git/h.py, nm being     *)
(* excluded, and yielded a/b.py from the directory that holds nm.          *)
C3_Witness ==
    /\ pc = "collect"
    /\ tree = {<<N_a, N_nm, N_b, N_c_py>>, <<N_git, N_h_py>>, <<N_a, N_b_py>>}
    /\ N_nm \in exclude_dirs
    /\ found = <<root \o <<N_a, N_b_py>> >>

(* C4: a non-hidden file in a non-pruned directory is yielded exactly when *)
(* its extension equals an include-set entry ignoring letter case.         *)
C4_CaseInsensitive ==
    WalkDone =>
        \A rel \in tree :
            (DirsAllowed(rel) /\ ~startswith_dot(FileName(rel))) =>
                (WasFound(rel) <=>
                    \E e \in include_exts :
                        lower(suffix(FileName(rel))) = lower(e))

C6_FallbackOrder ==
    /\ Len(clipLog) <= 2
    /\ clipLog # <<>> => clipLog[1].mech = "pbcopy"
    /\ \A i \in 1..Len(clipLog) :
        clipLog[i].mech = "pyperclip" =>
            i = 2 /\ clipLog[1] = [mech |-> "pbcopy", ok |-> FALSE]
    /\ error.at = "clipboard" <=>
        (Len(clipLog) = 2 /\ ~clipLog[1].ok /\ ~clipLog[2].ok)
    /\ (\E i \in 1..Len(clipLog) : clipLog[i].ok) =>
        (pc \in {"report", "done"} /\ error = NoError)

(* pbcopy failed, pyperclip succeeded and the run ended in success. *)
C6_Witness ==
    /\ pc = "done"
    /\ Len(clipLog) = 2
    /\ clipLog[2] = [mech |-> "pyperclip", ok |-> TRUE]

(* C7: when the run ends with the clipboard error, the destination path    *)
(* has already been reported.                                              *)
C7_PathReported ==
    error.at = "clipboard" =>
        \E i \in 1..Len(stdout) :
            stdout[i].line = "Saved" /\ stdout[i].path = output_path

(* C8: once a read of a discovered file met a filesystem error the run has *)
(* aborted: nothing is written, copied or printed.                         *)
C8_ReadErrorAborts ==
    (\E i \in 1..Len(reads) : ~reads[i].file.readable) =>
        /\ pc = "failed"
        /\ error = [exc |-> "OSError", at |-> "collect"]
        /\ disk = NoFile
        /\ clipLog = <<>>
        /\ stdout = <<>>

(* A first file was read into the document, the second could not be read. *)
C8_Witness ==
    /\ pc = "failed"
    /\ Len(reads) = 2
    /\ ~reads[2].file.readable
    /\ Len(combined) = 3

(* C9: a file that is not valid UTF-8 never ends the run: no decoding      *)
(* error is raised, the file has its entry, and a run fails in the read    *)
(* stage only on a file that cannot be read.                               *)
C9_DecodeFallback ==
    /\ error.exc # "UnicodeDecodeError"
    /\ (pc = "failed" /\ error.at = "collect") =>
        ~reads[Len(reads)].file.readable
    /\ \A i \in 1..Len(reads) :
        (reads[i].file.readable /\ ~Utf8Valid(reads[i].file.bytes)) =>
            \E k \in MarkerIdx :
                /\ combined[k] = Marker(relative_to(reads[i].path, root))
                /\ combined[k + 1].kind = "text"
                /\ Len(combined[k + 1].body) = Len(reads[i].file.bytes)

(* A file of invalid UTF-8 was read and the document was written. *)
C9_Witness ==
    /\ pc = "pbcopy"
    /\ disk.written
    /\ \E i \in 1..Len(reads) : reads[i].file.bytes = <<255, 13>>

(* C10: the clipboard is tried only after the write succeeded; a failed    *)
(* write ends the run with no clipboard attempt; after a clipboard failure *)
(* the file still holds the whole document.                                *)
C10_WriteBeforeClipboard ==
    /\ clipLog # <<>> =>
        disk = [written |-> TRUE, data |-> EncodeDoc(combined)]
    /\ error.at = "write" =>
        (clipLog = <<>> /\ pc = "failed" /\ ~disk.written)
    /\ error.at = "clipboard" =>
        disk = [written |-> TRUE, data |-> EncodeDoc(combined)]

(* Both clipboard mechanisms failed after a document with an entry was     *)
(* written.                                                                *)
C10_Witness ==
    /\ error.at = "clipboard"
    /\ Len(combined) >= 3
    /\ disk.written

====
